---- MODULE Spec2Model ----
(***************************************************************************)
(* Message batching and conversation-state continuity of the Telegram      *)
(* insurance bot: MessageHandlers (src/src/bot/handlers.py),               *)
(* AIService.respond (src/src/services/ai_service.py) and the             *)
(* DatabaseService store (src/src/services/database.py).                   *)
(*                                                                         *)
(* The program runs on one asyncio event loop.  A coroutine runs without   *)
(* interruption from one suspension point (an await that really waits) to  *)
(* the next, so every action below is one such stretch of code.  The       *)
(* suspension points are: asyncio.sleep in process_media_group, the        *)
(* Runner.run call and the bot.send_message calls (network I/O), and the   *)
(* send_chat_action / sleep loop of the typing task.  Acquiring an         *)
(* asyncio.Lock that is free does not suspend, and no code awaits while    *)
(* holding a group lock, so the locked regions are parts of one action.    *)
(***************************************************************************)
EXTENDS Integers, Sequences, FiniteSets, TLC

\* ------------------------------------------------------------------ bounds

\* Number of inbound messages (message_id 1..NumMessages) the environment
\* delivers to message_handler, each once, in any order.
NumMessages == 2

\* AIService.max_messages (settings.MAX_MESSAGES, configurable; 64 by default).
MaxMessages == 2

\* Longest stored history handed directly to the trimming step.
MaxHistoryLen == 4

\* Largest max_messages the trimming step is called with directly (0 and up).
LargestMaxMessages == 4

\* ------------------------------------------------------------- environment

Chats == {1, 2}

NoGroup == "none"

\* Media group identifiers; a media group belongs to one chat (chat 1 gets
\* grouped and single messages, chat 2 single messages).
Groups == {"g1"}

GroupChat(g) == 1

MessageIds == 1..NumMessages

\* An aiogram Message as far as the handlers read it: message_id, chat.id,
\* media_group_id and whether from_user is set.
Messages ==
    { m \in [message_id : MessageIds, chat : Chats,
             media_group_id : Groups \cup {NoGroup}, from_user : BOOLEAN] :
        m.media_group_id # NoGroup => m.chat = GroupChat(m.media_group_id) }

\* ------------------------------------------------------------ turn history

NoCallId == 0

\* A turn item: the core only looks at its call_id (NoCallId: no such key).
UserItem == [role |-> "user", call_id |-> NoCallId]

AssistantItem == [role |-> "assistant", call_id |-> NoCallId]

CallItem == [role |-> "function_call", call_id |-> 1]

OutputItem == [role |-> "function_call_output", call_id |-> 1]

\* What one agent run adds to the list it was given (result.to_input_list()
\* is the input followed by the items the run produced): a tool call, its
\* output and the reply.
RunItems == { <<CallItem, OutputItem, AssistantItem>> }

AgentNames ==
    {"hub_agent", "document_processor_agent", "price_negotiator_agent",
     "insurance_policy_agent"}

\* The handoffs set up in AIService.__init__: the agents a run that starts at
\* agent can end at after at most one handoff.
LastAgents(agent) ==
    {agent} \cup
    CASE agent = "hub_agent" -> {"document_processor_agent"}
      [] agent = "document_processor_agent" -> {"hub_agent", "price_negotiator_agent"}
      [] agent = "price_negotiator_agent" -> {"hub_agent", "insurance_policy_agent"}
      [] OTHER -> {}

\* A stage name no agent of this build carries (a row written by another build).
UnknownAgent == "unknown_agent"

NoAgent == ""

NoRow == [present |-> FALSE]

Row(input_list, last_agent_name) ==
    [present |-> TRUE, input_list |-> input_list,
     last_agent_name |-> last_agent_name]

\* No direct call is under way.
NoCall == [op |-> "none"]

VARIABLES
    arrived,              \* message_id -> Message: the updates delivered so far
    is_processing_map,    \* MessageHandlers.is_processing_map (a dict)
    media_groups,         \* MessageHandlers.media_groups (a defaultdict(list))
    media_group_locks,    \* keys of MessageHandlers.media_group_locks
    active_typing_tasks,  \* MessageHandlers._active_typing_tasks (a dict)
    typing,               \* state of each _send_continuous_typing_action task
    tasks,                \* the handler / debounce task started by each message
    db,                   \* the convos table: chat_id -> row
    call                  \* a direct call of the trimming step or of a store
                          \* operation (NoCall while the bot runs)

vars ==
    <<arrived, is_processing_map, media_groups, media_group_locks,
      active_typing_tasks, typing, tasks, db, call>>

\* ----------------------------------------------------------------- dicts

\* d[k] = v on a Python dict.
SetKey(d, k, v) == [x \in DOMAIN d \cup {k} |-> IF x = k THEN v ELSE d[x]]

\* del d[k] on a Python dict.
DelKey(d, k) == [x \in DOMAIN d \ {k} |-> d[x]]

\* ------------------------------------------------------- the store (sqlite)

\* The roles as pickle writes them.
RoleCode(role) ==
    CASE role = "user" -> 1
      [] role = "assistant" -> 2
      [] role = "function_call" -> 3
      [] role = "function_call_output" -> 4

CodeRole(code) ==
    CASE code = 1 -> "user"
      [] code = 2 -> "assistant"
      [] code = 3 -> "function_call"
      [] code = 4 -> "function_call_output"

\* pickle.dumps(input_list): the serialised list, as the item count followed by
\* the fields of the items in list order.
PickleDumps(input_list) ==
    [k \in 1..(2 * Len(input_list) + 1) |->
        IF k = 1 THEN Len(input_list)
        ELSE IF k % 2 = 0 THEN RoleCode(input_list[k \div 2].role)
        ELSE input_list[(k - 1) \div 2].call_id]

\* pickle.loads(blob): the list the blob was written from.
PickleLoads(blob) ==
    [i \in 1..blob[1] |-> [role |-> CodeRole(blob[2 * i]), call_id |-> blob[2 * i + 1]]]

\* A row of the convos table: the pickled input_list and the stage name.
StoredRow(input_list, last_agent_name) ==
    [present |-> TRUE, input_list |-> PickleDumps(input_list),
     last_agent_name |-> last_agent_name]

\* DatabaseService.get_conversation_history: the ConversationHistory decoded
\* from the row of chat_id, or NoRow (None) if there is no row.
GetConversationHistory(store, chat_id) ==
    IF store[chat_id].present
    THEN Row(PickleLoads(store[chat_id].input_list), store[chat_id].last_agent_name)
    ELSE NoRow

\* Mutant of SaveConversationHistory: INSERT OR IGNORE, an existing row stays.
SaveKeepsExisting(store, chat_id, input_list, last_agent_name) ==
    IF store[chat_id].present THEN store
    ELSE [store EXCEPT ![chat_id] = StoredRow(input_list, last_agent_name)]

\* DatabaseService.save_conversation_history: INSERT OR REPLACE of the row.
SaveConversationHistory(store, chat_id, input_list, last_agent_name) ==
    [store EXCEPT ![chat_id] = StoredRow(input_list, last_agent_name)]

\* Mutant of DeleteConversationHistory: the row is left in place.
DeleteSkipped(store, chat_id) == store

\* Mutant of DeleteConversationHistory: DELETE without its WHERE clause.
DeleteEveryRow(store, chat_id) == [c \in DOMAIN store |-> NoRow]

\* DatabaseService.delete_conversation_history: DELETE of the row.
DeleteConversationHistory(store, chat_id) ==
    [store EXCEPT ![chat_id] = NoRow]

\* Mutant of DeleteReports: success is reported only if a row was deleted.
DeleteReportsRowFound(store, chat_id) == store[chat_id].present

\* What delete_conversation_history returns after the DELETE on store: True.
DeleteReports(store, chat_id) == TRUE

\* What save_conversation_history returns after the INSERT OR REPLACE: True.
SaveReports(store, chat_id) == TRUE

\* ------------------------------------------------------ AIService.respond

\* Mutant of RemoveCallId: only an item right behind the popped one is dropped.
RemoveCallIdNextOnly(input_list, call_id_to_remove) ==
    IF input_list # <<>> /\ Head(input_list).call_id = call_id_to_remove
    THEN Tail(input_list)
    ELSE input_list

\* The item filter of the trimming loop: every item that does not carry
\* call_id_to_remove.
RemoveCallId(input_list, call_id_to_remove) ==
    SelectSeq(input_list, LAMBDA item : item.call_id # call_id_to_remove)

\* Mutant of NeedsTrim: the loop stops one item too late.
NeedsTrimStrict(input_list, max_messages) == Len(input_list) > max_messages

\* Mutant of NeedsTrim: the loop goes on one item too long.
NeedsTrimEarly(input_list, max_messages) == Len(input_list) >= max_messages - 1

\* while len(input_list) >= self.max_messages
NeedsTrim(input_list, max_messages) == Len(input_list) >= max_messages

\* Mutant of TrimStep: the oldest item is looked at but not popped.
TrimStepWithoutPop(input_list) ==
    LET oldest == Head(input_list)
        rest == Tail(input_list)
    IN  IF oldest.call_id # NoCallId
        THEN <<oldest>> \o RemoveCallId(rest, oldest.call_id)
        ELSE input_list

\* One iteration of the trimming loop on a non-empty list: pop the oldest item
\* and, if it carries a (truthy) call_id, drop every item with that call_id.
TrimStep(input_list) ==
    LET oldest == Head(input_list)
        rest == Tail(input_list)
    IN  IF oldest.call_id # NoCallId
        THEN RemoveCallId(rest, oldest.call_id)
        ELSE rest

RECURSIVE TrimHistory(_, _)
\* The trimming loop run to its end.  (max_messages >= 1 where this is used,
\* so the list is never empty when popped.)
TrimHistory(input_list, max_messages) ==
    IF NeedsTrim(input_list, max_messages) /\ Len(input_list) > 0
    THEN TrimHistory(TrimStep(input_list), max_messages)
    ELSE input_list

\* The choice of the starting agent; an unknown stored name raises ValueError.
RespondRaisesValueError(history) ==
    history.present /\ history.last_agent_name \notin AgentNames

\* Mutant of StartingAgent: every turn starts at the hub.
StartingAgentAlwaysHub(history) == "hub_agent"

StartingAgent(history) ==
    IF history.present THEN history.last_agent_name ELSE "hub_agent"

\* The list handed to Runner.run: the stored history, trimmed, then the new
\* user turn (the merged content of the batch).
RunnerInput(history) ==
    Append(IF history.present
           THEN TrimHistory(history.input_list, MaxMessages)
           ELSE <<>>,
           UserItem)

\* ------------------------------------------------------- MessageHandlers

\* Mutant of IsProcessing: the admission check never sees a busy chat.
IsProcessingIgnored(chat_id) == FALSE

\* Mutant of IsProcessing: a chat counts as busy while it has a registered
\* typing task.
IsProcessingIfRegistered(chat_id) == chat_id \in DOMAIN active_typing_tasks

\* Mutant of IsProcessing: one flag for all chats.
IsProcessingAnyChat(chat_id) ==
    \E c \in DOMAIN is_processing_map : is_processing_map[c]

\* self.is_processing_map.get(chat_id, False)
IsProcessing(chat_id) ==
    chat_id \in DOMAIN is_processing_map /\ is_processing_map[chat_id]

RECURSIVE InsertByMessageId(_, _)
InsertByMessageId(sorted, msg) ==
    IF sorted = <<>> THEN <<msg>>
    ELSE IF msg.message_id < Head(sorted).message_id
         THEN <<msg>> \o sorted
         ELSE <<Head(sorted)>> \o InsertByMessageId(Tail(sorted), msg)

\* Mutant of SortByMessageId: the batch keeps its arrival order.
SortSkipped(messages) == messages

RECURSIVE SortByMessageId(_)
\* messages.sort(key=lambda msg: msg.message_id): a stable ascending sort.
SortByMessageId(messages) ==
    IF messages = <<>> THEN <<>>
    ELSE InsertByMessageId(SortByMessageId(SubSeq(messages, 1, Len(messages) - 1)),
                           messages[Len(messages)])

\* Mutant of AppendToGroup: the message is appended twice.
AppendToGroupTwice(groups, media_group_id, message) ==
    SetKey(groups, media_group_id,
           (IF media_group_id \in DOMAIN groups
            THEN groups[media_group_id] ELSE <<>>) \o <<message, message>>)

\* Mutant of AppendToGroup: the message replaces the pending list.
AppendToGroupReplaces(groups, media_group_id, message) ==
    SetKey(groups, media_group_id, <<message>>)

\* self.media_groups[media_group_id].append(message) on the defaultdict(list).
AppendToGroup(groups, media_group_id, message) ==
    SetKey(groups, media_group_id,
           Append(IF media_group_id \in DOMAIN groups
                  THEN groups[media_group_id] ELSE <<>>,
                  message))

\* Mutant of IsFirstOfGroup: every appended message schedules a debounce.
IsFirstOfGroupAlways(groups, media_group_id) == TRUE

\* if len(self.media_groups[media_group_id]) == 1: the debounce is scheduled.
IsFirstOfGroup(groups, media_group_id) == Len(groups[media_group_id]) = 1

\* Mutant of ClearGroup: the pending entry is kept.
ClearGroupSkipped(groups, media_group_id) == groups

\* del self.media_groups[media_group_id]
ClearGroup(groups, media_group_id) == DelKey(groups, media_group_id)

\* task.cancel(): a task suspended in the loop gets CancelledError at its next
\* step; a task that never ran ends at its first step without entering the
\* try block, so its finally clause does not run; a finished task is left.
CancelTask(state) ==
    IF state = "running" THEN "cancelling"
    ELSE IF state = "created" THEN "done"
    ELSE state

\* ------------------------------------------------------------------ tasks

\* The coroutine started for message t (its message_handler, and for the first
\* message of a group occurrence the process_media_group task it schedules),
\* with the locals it carries over its suspension points and the counts of the
\* calls it has made to the collaborator and to bot.send_message.
\*   pc: "none"     the message has not arrived
\*       "ignored"  message_handler returned: the message has no sender
\*       "joined"   the message was appended to a pending group that already
\*                  had a debounce task; message_handler returned
\*       "sleep"    process_media_group awaits asyncio.sleep(MEDIA_GROUP_TIMEOUT)
\*       "aborted"  process_media_group found no pending group and returned
\*       "empty"    process_message_batch returned on an empty batch
\*       "dropped"  process_message_batch returned: the chat was busy
\*       "run"      respond awaits Runner.run
\*       "send"     respond awaits bot.send_message(final_output)
\*       "notify"   process_message_batch awaits bot.send_message(error text)
\*       "done"     process_message_batch returned after its finally clause
\*       "crashed"  an exception left the coroutine: the task ended with it
\*   outcome of a turn that is done: "saved", "deleted", "failed" (the error
\*       text was sent), "failed_unnotified" (sending it raised
\*       TelegramAPIError) or "failed_logged" (sending it raised another
\*       exception, which left process_message_batch)
\*   history: what respond read from the store when the turn began
\*   lock_at_schedule: for a task that scheduled a debounce, whether the
\*       group's lock was held at the create_task call ("none" otherwise)
NewTask ==
    [pc |-> "none", chat |-> 0, media_group_id |-> NoGroup, batch |-> <<>>,
     starting_agent |-> NoAgent, input_list |-> <<>>, last_agent |-> NoAgent,
     history |-> NoRow, calls |-> 0, outs |-> 0, errs |-> 0,
     outcome |-> "none", lock_at_schedule |-> "none"]

TypeOK ==
    /\ DOMAIN arrived \subseteq MessageIds
    /\ \A i \in DOMAIN arrived : arrived[i] \in Messages /\ arrived[i].message_id = i
    /\ DOMAIN is_processing_map \subseteq Chats
    /\ \A c \in DOMAIN is_processing_map : is_processing_map[c] \in BOOLEAN
    /\ DOMAIN media_groups \subseteq Groups
    /\ media_group_locks \subseteq Groups
    /\ DOMAIN active_typing_tasks \subseteq Chats
    /\ \A c \in DOMAIN active_typing_tasks : active_typing_tasks[c] \in MessageIds
    /\ typing \in [MessageIds -> {"none", "created", "running", "cancelling", "done"}]
    /\ DOMAIN tasks = MessageIds
    /\ DOMAIN db = Chats

\* The rows the store file can hold when the process starts: none, a row saved
\* by an earlier run, or a row whose stage name this build does not know.  The
\* bot starts with a stored row for chat 1 at most (the code treats chat ids
\* alike; later rows of either chat are written by the turns).
InitRows ==
    { NoRow,
      StoredRow(<<UserItem, AssistantItem>>, "document_processor_agent"),
      StoredRow(<<UserItem, AssistantItem>>, UnknownAgent) }

Init ==
    /\ arrived = <<>>
    /\ is_processing_map = <<>>
    /\ media_groups = <<>>
    /\ media_group_locks = {}
    /\ active_typing_tasks = <<>>
    /\ typing = [t \in MessageIds |-> "none"]
    /\ tasks = [t \in MessageIds |-> NewTask]
    /\ db \in [Chats -> InitRows]
    /\ \A c \in Chats : db[c].present => c = 1
    /\ call = NoCall

\* process_message_batch(bot, user, messages) as run by task t, up to its first
\* suspension point: the empty-batch and busy returns, or the admission (Busy
\* Flag set, typing task created and registered) followed by the start of
\* respond, which either raises ValueError (the error text is then being sent)
\* or reaches Runner.run.
ProcessMessageBatch(t, media_group_id, messages) ==
    LET chat_id == messages[1].chat
        history == GetConversationHistory(db, chat_id)
        handed == [tasks[t] EXCEPT !.media_group_id = media_group_id,
                                   !.batch = messages]
    IN  IF messages = <<>>
        THEN /\ tasks' = [tasks EXCEPT ![t] = [handed EXCEPT !.pc = "empty"]]
             /\ UNCHANGED <<is_processing_map, active_typing_tasks, typing>>
        ELSE IF IsProcessing(chat_id)
        THEN /\ tasks' = [tasks EXCEPT ![t] =
                            [handed EXCEPT !.pc = "dropped", !.chat = chat_id]]
             /\ UNCHANGED <<is_processing_map, active_typing_tasks, typing>>
        ELSE /\ is_processing_map' = SetKey(is_processing_map, chat_id, TRUE)
             /\ typing' = [typing EXCEPT ![t] = "created"]
             /\ active_typing_tasks' = SetKey(active_typing_tasks, chat_id, t)
             /\ tasks' = [tasks EXCEPT ![t] =
                   IF RespondRaisesValueError(history)
                   THEN [handed EXCEPT !.pc = "notify", !.chat = chat_id,
                                       !.history = history, !.errs = @ + 1]
                   ELSE [handed EXCEPT !.pc = "run", !.chat = chat_id,
                                       !.history = history,
                                       !.starting_agent = StartingAgent(history),
                                       !.input_list = RunnerInput(history),
                                       !.calls = @ + 1]]

\* Mutant of HasMediaGroup: every message is handled as a grouped one.
HasMediaGroupAlways(m) == TRUE

\* if not media_group_id: ... (negated)
HasMediaGroup(m) == m.media_group_id # NoGroup

\* message_handler(message) for a message without a sender: logged, ignored.
ArriveNoSender(m) ==
    /\ UNCHANGED call
    /\ m.message_id \notin DOMAIN arrived
    /\ ~m.from_user
    /\ arrived' = SetKey(arrived, m.message_id, m)
    /\ tasks' = [tasks EXCEPT ![m.message_id].pc = "ignored"]
    /\ UNCHANGED <<is_processing_map, media_groups, media_group_locks,
                   active_typing_tasks, typing, db>>

\* message_handler(message) for a message with no media_group_id: the batch
\* [message] goes to process_message_batch at once.
ArriveSingle(m) ==
    /\ UNCHANGED call
    /\ m.message_id \notin DOMAIN arrived
    /\ m.from_user
    /\ ~HasMediaGroup(m)
    /\ arrived' = SetKey(arrived, m.message_id, m)
    /\ ProcessMessageBatch(m.message_id, NoGroup, <<m>>)
    /\ UNCHANGED <<media_groups, media_group_locks, db>>

\* The state of the group's lock at a statement of
\* _handle_media_group_message: the async with block holds it from the append
\* to the create_task call, which is the last statement of the block.
LockAt(statement) ==
    IF statement \in {"append", "len", "create_task"} THEN "held" ELSE "free"

\* message_handler(message) -> _handle_media_group_message: under the group's
\* lock the message is appended, and the debounce task is created if the
\* message is the first of the pending group.
ArriveGrouped(m) ==
    /\ UNCHANGED call
    /\ m.message_id \notin DOMAIN arrived
    /\ m.from_user
    /\ HasMediaGroup(m)
    /\ arrived' = SetKey(arrived, m.message_id, m)
    /\ media_group_locks' = media_group_locks \cup {m.media_group_id}
    /\ media_groups' = AppendToGroup(media_groups, m.media_group_id, m)
    /\ tasks' = [tasks EXCEPT ![m.message_id] =
                    [@ EXCEPT !.pc = IF IsFirstOfGroup(media_groups', m.media_group_id)
                                     THEN "sleep" ELSE "joined",
                              !.chat = m.chat,
                              !.media_group_id = m.media_group_id,
                              !.lock_at_schedule =
                                    IF IsFirstOfGroup(media_groups', m.media_group_id)
                                    THEN LockAt("create_task") ELSE "none"]]
    /\ UNCHANGED <<is_processing_map, active_typing_tasks, typing, db>>

\* process_media_group after its sleep: under the group's lock the pending
\* messages are taken, sorted and the group is removed; then the batch goes to
\* process_message_batch.
DebounceFires(t) ==
    /\ UNCHANGED call
    /\ tasks[t].pc = "sleep"
    /\ LET g == tasks[t].media_group_id IN
       /\ media_group_locks' = media_group_locks \cup {g}
       /\ IF g \notin DOMAIN media_groups
          THEN /\ tasks' = [tasks EXCEPT ![t].pc = "aborted"]
               /\ UNCHANGED <<media_groups, is_processing_map,
                              active_typing_tasks, typing>>
          ELSE /\ media_groups' = ClearGroup(media_groups, g)
               /\ ProcessMessageBatch(t, g, SortByMessageId(media_groups[g]))
    /\ UNCHANGED <<arrived, db>>

\* ------------------------------------------------- the end of a turn

\* Mutant of MarkNotProcessing: the finally clause leaves the flag as it is.
MarkNotProcessingSkipped(chat_id) == is_processing_map

\* self.is_processing_map[chat_id] = False (the finally clause).
MarkNotProcessing(chat_id) == SetKey(is_processing_map, chat_id, FALSE)

\* Mutant of CancelTypingOfTurn: no task is cancelled.
CancelTypingSkipped(t, chat_id) == typing

\* The two cancellations at the end of process_message_batch: typing_task (the
\* task this turn created) if it is not done, then the task registered for the
\* chat if there is one and it is not done.
CancelTypingOfTurn(t, chat_id) ==
    LET cancelled == [typing EXCEPT ![t] = CancelTask(@)]
    IN  IF /\ chat_id \in DOMAIN active_typing_tasks
           /\ cancelled[active_typing_tasks[chat_id]] # "done"
        THEN [cancelled EXCEPT ![active_typing_tasks[chat_id]] = CancelTask(@)]
        ELSE cancelled

\* The locals of a finished coroutine are gone.
Finished(task, outcome) ==
    [task EXCEPT !.pc = "done", !.outcome = outcome,
                 !.starting_agent = NoAgent, !.input_list = <<>>,
                 !.last_agent = NoAgent,
                 !.history = NoRow, !.calls = 0, !.outs = 0, !.errs = 0]

\* process_message_batch from the return of respond (or of the error
\* notification) to its own return.
EndTurn(t) ==
    /\ typing' = CancelTypingOfTurn(t, tasks[t].chat)
    /\ is_processing_map' = MarkNotProcessing(tasks[t].chat)
    /\ UNCHANGED <<arrived, media_groups, media_group_locks, active_typing_tasks>>

\* Mutant of CanResume: the turn goes on only while its typing task runs.
CanResumeWhileTyping(t) == typing[t] = "running"

\* A suspended turn resumes only after the typing task it created has taken
\* its first step: the task is in the loop's ready queue from create_task on,
\* and the awaited network call completes in a later loop iteration.
CanResume(t) == typing[t] # "created"

\* Runner.run returns an empty final output: the row is deleted, respond returns.
RunReturnsEmpty(t) ==
    /\ UNCHANGED call
    /\ tasks[t].pc = "run"
    /\ CanResume(t)
    /\ db' = DeleteConversationHistory(db, tasks[t].chat)
    /\ tasks' = [tasks EXCEPT ![t] = Finished(@, "deleted")]
    /\ EndTurn(t)

\* Mutant of RunReturnsOutput: the result is saved before the output is sent.
RunReturnsOutputSavesFirst(t) ==
    /\ UNCHANGED call
    /\ tasks[t].pc = "run"
    /\ CanResume(t)
    /\ \E items \in RunItems, last_agent \in LastAgents(tasks[t].starting_agent) :
         /\ tasks' = [tasks EXCEPT ![t] =
                       [@ EXCEPT !.pc = "send", !.outs = @ + 1,
                                 !.input_list = @ \o items,
                                 !.last_agent = last_agent]]
         /\ db' = SaveConversationHistory(db, tasks[t].chat,
                                          tasks[t].input_list \o items, last_agent)
    /\ UNCHANGED <<arrived, is_processing_map, media_groups, media_group_locks,
                   active_typing_tasks, typing>>

\* Runner.run returns a non-empty final output, the updated turn history and
\* the last agent: respond starts sending the output.
RunReturnsOutput(t) ==
    /\ UNCHANGED call
    /\ tasks[t].pc = "run"
    /\ CanResume(t)
    /\ \E items \in RunItems, last_agent \in LastAgents(tasks[t].starting_agent) :
         tasks' = [tasks EXCEPT ![t] =
                     [@ EXCEPT !.pc = "send", !.outs = @ + 1,
                               !.input_list = @ \o items,
                               !.last_agent = last_agent]]
    /\ UNCHANGED <<arrived, is_processing_map, media_groups, media_group_locks,
                   active_typing_tasks, typing, db>>

\* Runner.run raises: process_message_batch catches it and starts sending the
\* error text.
RunRaises(t) ==
    /\ UNCHANGED call
    /\ tasks[t].pc = "run"
    /\ CanResume(t)
    /\ tasks' = [tasks EXCEPT ![t] = [@ EXCEPT !.pc = "notify", !.errs = @ + 1]]
    /\ UNCHANGED <<arrived, is_processing_map, media_groups, media_group_locks,
                   active_typing_tasks, typing, db>>

\* bot.send_message(final_output) returns: the history and the last agent are
\* saved, respond returns.
SendReturns(t) ==
    /\ UNCHANGED call
    /\ tasks[t].pc = "send"
    /\ CanResume(t)
    /\ db' = SaveConversationHistory(db, tasks[t].chat, tasks[t].input_list,
                                     tasks[t].last_agent)
    /\ tasks' = [tasks EXCEPT ![t] = Finished(@, "saved")]
    /\ EndTurn(t)

\* Mutant of SendRaises: the result is saved although the send failed.
SendRaisesSaves(t) ==
    /\ UNCHANGED call
    /\ tasks[t].pc = "send"
    /\ CanResume(t)
    /\ tasks' = [tasks EXCEPT ![t] = [@ EXCEPT !.pc = "notify", !.errs = @ + 1]]
    /\ db' = SaveConversationHistory(db, tasks[t].chat, tasks[t].input_list,
                                     tasks[t].last_agent)
    /\ UNCHANGED <<arrived, is_processing_map, media_groups, media_group_locks,
                   active_typing_tasks, typing>>

\* bot.send_message(final_output) raises: respond raises before the save, and
\* process_message_batch starts sending the error text.
SendRaises(t) ==
    /\ UNCHANGED call
    /\ tasks[t].pc = "send"
    /\ CanResume(t)
    /\ tasks' = [tasks EXCEPT ![t] = [@ EXCEPT !.pc = "notify", !.errs = @ + 1]]
    /\ UNCHANGED <<arrived, is_processing_map, media_groups, media_group_locks,
                   active_typing_tasks, typing, db>>

\* The error text has been sent.
NotifyReturns(t) ==
    /\ UNCHANGED call
    /\ tasks[t].pc = "notify"
    /\ CanResume(t)
    /\ tasks' = [tasks EXCEPT ![t] = Finished(@, "failed")]
    /\ EndTurn(t)
    /\ UNCHANGED db

\* Sending the error text raises TelegramAPIError: logged, swallowed.
NotifyRaises(t) ==
    /\ UNCHANGED call
    /\ tasks[t].pc = "notify"
    /\ CanResume(t)
    /\ tasks' = [tasks EXCEPT ![t] = Finished(@, "failed_unnotified")]
    /\ EndTurn(t)
    /\ UNCHANGED db

\* The cancellation of the finally clause alone: the task registered for the
\* chat, if there is one and it is not done.
CancelRegisteredTask(chat_id) ==
    IF /\ chat_id \in DOMAIN active_typing_tasks
       /\ typing[active_typing_tasks[chat_id]] # "done"
    THEN [typing EXCEPT ![active_typing_tasks[chat_id]] = CancelTask(@)]
    ELSE typing

\* The exceptions bot.send_message raises that are no TelegramAPIError (aiogram
\* raises ClientDecodeError on a reply it cannot parse).
OtherExceptions == {"ClientDecodeError"}

\* Mutant of HandlerCatches: only TelegramAPIError is caught.
HandlerCatchesTelegramOnly(exception) == exception = "TelegramAPIError"

\* `except Exception` of message_handler and of process_media_group: every
\* exception but a cancellation is caught and logged.
HandlerCatches(exception) == exception # "CancelledError"

\* Sending the error text raises an exception that is no TelegramAPIError: it
\* leaves the except clause, so the cancellation of typing_task is skipped;
\* the finally clause clears the flag and cancels the registered task; the
\* exception then reaches the except clause of message_handler (an ungrouped
\* message) or of process_media_group (a group's batch).
NotifyRaisesOther(t) ==
    /\ UNCHANGED call
    /\ tasks[t].pc = "notify"
    /\ CanResume(t)
    /\ \E exception \in OtherExceptions :
         tasks' = [tasks EXCEPT ![t] =
                     [Finished(@, "failed_logged") EXCEPT
                         !.pc = IF HandlerCatches(exception)
                                THEN "done" ELSE "crashed"]]
    /\ typing' = CancelRegisteredTask(tasks[t].chat)
    /\ is_processing_map' = MarkNotProcessing(tasks[t].chat)
    /\ UNCHANGED <<arrived, media_groups, media_group_locks,
                   active_typing_tasks, db>>

\* ------------------------------------- _send_continuous_typing_action

\* Mutant of Deregister: the finally clause leaves the registry as it is.
DeregisterSkipped(registry, chat_id) == registry

\* The finally clause: the chat's registry entry is deleted if there is one.
Deregister(registry, chat_id) ==
    IF chat_id \in DOMAIN registry THEN DelKey(registry, chat_id) ELSE registry

\* The task's first step: it enters the loop and awaits send_chat_action.
TypingStarts(t) ==
    /\ UNCHANGED call
    /\ typing[t] = "created"
    /\ typing' = [typing EXCEPT ![t] = "running"]
    /\ UNCHANGED <<arrived, is_processing_map, media_groups, media_group_locks,
                   active_typing_tasks, tasks, db>>

\* send_chat_action raises TelegramAPIError: the loop ends, finally runs.
TypingFails(t) ==
    /\ UNCHANGED call
    /\ typing[t] = "running"
    /\ typing' = [typing EXCEPT ![t] = "done"]
    /\ active_typing_tasks' = Deregister(active_typing_tasks, tasks[t].chat)
    /\ UNCHANGED <<arrived, is_processing_map, media_groups, media_group_locks,
                   tasks, db>>

\* The cancelled task gets CancelledError at its await: the loop ends, finally
\* runs.
TypingCancelled(t) ==
    /\ UNCHANGED call
    /\ typing[t] = "cancelling"
    /\ typing' = [typing EXCEPT ![t] = "done"]
    /\ active_typing_tasks' = Deregister(active_typing_tasks, tasks[t].chat)
    /\ UNCHANGED <<arrived, is_processing_map, media_groups, media_group_locks,
                   tasks, db>>

\* ---------------------------------------------------------- specification

Next ==
    \/ \E m \in Messages : ArriveNoSender(m)
    \/ \E m \in Messages : ArriveSingle(m)
    \/ \E m \in Messages : ArriveGrouped(m)
    \/ \E t \in MessageIds : DebounceFires(t)
    \/ \E t \in MessageIds : RunReturnsEmpty(t)
    \/ \E t \in MessageIds : RunReturnsOutput(t)
    \/ \E t \in MessageIds : RunRaises(t)
    \/ \E t \in MessageIds : SendReturns(t)
    \/ \E t \in MessageIds : SendRaises(t)
    \/ \E t \in MessageIds : NotifyReturns(t)
    \/ \E t \in MessageIds : NotifyRaises(t)
    \/ \E t \in MessageIds : NotifyRaisesOther(t)
    \/ \E t \in MessageIds : TypingStarts(t)
    \/ \E t \in MessageIds : TypingFails(t)
    \/ \E t \in MessageIds : TypingCancelled(t)

Spec == Init /\ [][Next]_vars

\* An awaited call of a turn returns or raises.
TurnStep(t) ==
    \/ RunReturnsEmpty(t) \/ RunReturnsOutput(t) \/ RunRaises(t)
    \/ SendReturns(t) \/ SendRaises(t)
    \/ NotifyReturns(t) \/ NotifyRaises(t) \/ NotifyRaisesOther(t)

\* The event loop runs every ready task, every sleep ends, and every awaited
\* call of a turn returns or raises.  Arrivals and communication failures of
\* the typing signal are not forced.
Fairness ==
    \A t \in MessageIds :
        /\ WF_vars(DebounceFires(t))
        /\ WF_vars(TurnStep(t))
        /\ WF_vars(TypingStarts(t))
        /\ WF_vars(TypingCancelled(t))

FairSpec == Spec /\ Fairness

\* --------------------------------------- the trimming step, called directly

\* The state of the handlers while no message has arrived.
Idle ==
    /\ arrived = <<>>
    /\ is_processing_map = <<>>
    /\ media_groups = <<>>
    /\ media_group_locks = {}
    /\ active_typing_tasks = <<>>
    /\ typing = [t \in MessageIds |-> "none"]
    /\ tasks = [t \in MessageIds |-> NewTask]

botVars ==
    <<arrived, is_processing_map, media_groups, media_group_locks,
      active_typing_tasks, typing, tasks>>

\* A second tool call, with a call_id of its own.
OtherCallItem == [role |-> "function_call", call_id |-> 2]

\* The items of the stored histories the trimming step is tried on.
TrimItems == {UserItem, AssistantItem, CallItem, OutputItem, OtherCallItem}

CallIds == {item.call_id : item \in TrimItems} \ {NoCallId}

Histories == UNION { [1..n -> TrimItems] : n \in 0..MaxHistoryLen }

\* respond from the read of a stored history h (history is not None) by a
\* service built with max_messages = m, up to the call of Runner.run:
\*   pc "loop"     at the test of the trimming loop
\*      "raised"   input_list[0] raised IndexError (the list was empty)
\*      "trimmed"  the loop has ended
\*      "handed"   the user turn is appended and the list is given to Runner.run
TrimInit ==
    /\ Idle
    /\ db = [c \in Chats |-> NoRow]
    /\ \E h \in Histories, m \in 0..LargestMaxMessages :
          call = [op |-> "trim", h |-> h, m |-> m, input_list |-> h, pc |-> "loop"]

\* One pass of the loop body: the list is not empty, so the pop succeeds.
TrimIterates ==
    /\ call.op = "trim" /\ call.pc = "loop"
    /\ NeedsTrim(call.input_list, call.m)
    /\ call.input_list # <<>>
    /\ call' = [call EXCEPT !.input_list = TrimStep(call.input_list)]
    /\ UNCHANGED <<botVars, db>>

\* The loop test holds on an empty list (max_messages is 0): input_list[0]
\* raises IndexError, which leaves respond.
TrimRaisesIndexError ==
    /\ call.op = "trim" /\ call.pc = "loop"
    /\ NeedsTrim(call.input_list, call.m)
    /\ call.input_list = <<>>
    /\ call' = [call EXCEPT !.pc = "raised"]
    /\ UNCHANGED <<botVars, db>>

\* The loop test fails: the loop ends.
TrimExits ==
    /\ call.op = "trim" /\ call.pc = "loop"
    /\ ~NeedsTrim(call.input_list, call.m)
    /\ call' = [call EXCEPT !.pc = "trimmed"]
    /\ UNCHANGED <<botVars, db>>

\* input_list.append({"content": content, "role": "user"}), then Runner.run.
AppendUserTurn ==
    /\ call.op = "trim" /\ call.pc = "trimmed"
    /\ call' = [call EXCEPT !.input_list = Append(@, UserItem), !.pc = "handed"]
    /\ UNCHANGED <<botVars, db>>

TrimNext ==
    \/ TrimIterates
    \/ TrimRaisesIndexError
    \/ TrimExits
    \/ AppendUserTurn

TrimSpec == TrimInit /\ [][TrimNext]_vars

\* respond is straight-line code: it runs on until it returns or raises.
TrimFairSpec == TrimSpec /\ WF_vars(TrimNext)

\* ------------------------------------- the store operations, called directly

\* The turn histories and stages the store operations are tried on.
SavedLists ==
    { <<UserItem, AssistantItem>>,
      <<AssistantItem, UserItem>>,
      <<UserItem, CallItem, OutputItem, AssistantItem>> }

SavedAgents == {"hub_agent", "price_negotiator_agent"}

StoreOps == {"open", "save", "get", "delete"}

\* What the caller knows of a conversation's row: nothing yet, or the state it
\* last wrote (a saved history, or NoRow after a delete) and whether that save
\* replaced a different row.
Unknown == [known |-> FALSE]

Known(value, replaced) == [known |-> TRUE, value |-> value, replaced |-> replaced]

\* The service is opened on a store file that may already hold a row.
StoreInit ==
    /\ Idle
    /\ db \in [Chats -> InitRows]
    /\ Cardinality({c \in Chats : db[c].present}) <= 1
    /\ call = [op |-> "open", written |-> [c \in Chats |-> Unknown]]

\* save_conversation_history(chat_id, input_list, last_agent_name)
StoreSave(chat_id, input_list, last_agent_name) ==
    /\ call.op \in StoreOps
    /\ db' = SaveConversationHistory(db, chat_id, input_list, last_agent_name)
    /\ call' = [op |-> "save", chat |-> chat_id, input_list |-> input_list,
                last_agent_name |-> last_agent_name,
                result |-> SaveReports(db, chat_id),
                written |-> [call.written EXCEPT ![chat_id] =
                    Known(Row(input_list, last_agent_name),
                          /\ db[chat_id].present
                          /\ GetConversationHistory(db, chat_id)
                                # Row(input_list, last_agent_name))]]
    /\ UNCHANGED botVars

\* get_conversation_history(chat_id)
StoreGet(chat_id) ==
    /\ call.op \in StoreOps
    /\ call' = [op |-> "get", chat |-> chat_id,
                result |-> GetConversationHistory(db, chat_id),
                written |-> call.written]
    /\ UNCHANGED <<botVars, db>>

\* delete_conversation_history(chat_id)
StoreDelete(chat_id) ==
    /\ call.op \in StoreOps
    /\ db' = DeleteConversationHistory(db, chat_id)
    /\ call' = [op |-> "delete", chat |-> chat_id,
                result |-> DeleteReports(db, chat_id),
                existed |-> db[chat_id].present,
                again |-> /\ call.written[chat_id].known
                          /\ ~call.written[chat_id].value.present,
                written |-> [call.written EXCEPT ![chat_id] = Known(NoRow, FALSE)]]
    /\ UNCHANGED botVars

StoreNext ==
    \/ \E c \in Chats, l \in SavedLists, a \in SavedAgents : StoreSave(c, l, a)
    \/ \E c \in Chats : StoreGet(c)
    \/ \E c \in Chats : StoreDelete(c)

StoreSpec == StoreInit /\ [][StoreNext]_vars

\* ------------------------------- reading rows that were not written by save

\* Zero bytes: pickle.loads raises EOFError ("Ran out of input").
EmptyBlob == <<>>

\* Bytes that are no pickle: pickle.loads raises pickle.UnpicklingError.
GarbageBlob == <<-2>>

\* pickle.dumps of a dict: a well-formed pickle whose value is not a list.
PickledDict == <<-1>>

\* pickle.loads(blob): the exception it raises ("none" if it returns), and
\* the value it returns with whether that value is a list.
PickleLoadsOutcome(blob) ==
    IF blob = EmptyBlob
    THEN [raised |-> "EOFError", is_list |-> FALSE, value |-> <<>>]
    ELSE IF blob = GarbageBlob
    THEN [raised |-> "UnpicklingError", is_list |-> FALSE, value |-> <<>>]
    ELSE IF blob = PickledDict
    THEN [raised |-> "none", is_list |-> FALSE, value |-> <<>>]
    ELSE [raised |-> "none", is_list |-> TRUE, value |-> PickleLoads(blob)]

\* ConversationHistory(input_list=..., last_agent_name=...): __post_init__
\* raises TypeError unless input_list is a list.
PostInitRaises(loaded) == ~loaded.is_list

\* get_conversation_history with its except clause: what the call returns
\* (NoRow is None) or the exception that leaves it. The clause catches
\* sqlite3.Error and pickle.PickleError (UnpicklingError is one) and nothing
\* else.
GetOutcome(store, chat_id) ==
    IF ~store[chat_id].present
    THEN [raised |-> "none", result |-> NoRow]
    ELSE LET loaded == PickleLoadsOutcome(store[chat_id].input_list) IN
         IF loaded.raised = "UnpicklingError"
         THEN [raised |-> "none", result |-> NoRow]
         ELSE IF loaded.raised # "none"
         THEN [raised |-> loaded.raised, result |-> NoRow]
         ELSE IF PostInitRaises(loaded)
         THEN [raised |-> "TypeError", result |-> NoRow]
         ELSE [raised |-> "none",
               result |-> Row(loaded.value, store[chat_id].last_agent_name)]

\* How respond goes on after the read of line 466: the exception of the read
\* leaves respond ("failed"), None starts a fresh conversation at the hub
\* ("fresh"), a history continues it ("continued").
TurnAfterRead(outcome) ==
    IF outcome.raised # "none" THEN "failed"
    ELSE IF outcome.result = NoRow THEN "fresh"
    ELSE "continued"

\* The input_list blobs a store file may hold.
DecodeBlobs ==
    {PickleDumps(<<UserItem, AssistantItem>>), EmptyBlob, GarbageBlob, PickledDict}

DecodeRows ==
    {NoRow} \cup
    { [present |-> TRUE, input_list |-> b, last_agent_name |-> a] :
        b \in DecodeBlobs, a \in SavedAgents }

\* The row cannot be decoded into a ConversationHistory.
Undecodable(row) ==
    row.present /\ row.input_list \in {EmptyBlob, GarbageBlob, PickledDict}

\* The service is opened on a store file whose rows may be damaged.
DecodeInit ==
    /\ Idle
    /\ db \in [Chats -> DecodeRows]
    /\ call = [op |-> "open"]

\* respond reads the state of chat_id (ai_service.py 466).
DecodeGet(chat_id) ==
    /\ call.op \in {"open", "get"}
    /\ call' = [op |-> "get", chat |-> chat_id,
                outcome |-> GetOutcome(db, chat_id),
                turn |-> TurnAfterRead(GetOutcome(db, chat_id))]
    /\ UNCHANGED <<botVars, db>>

DecodeNext == \E c \in Chats : DecodeGet(c)

DecodeSpec == DecodeInit /\ [][DecodeNext]_vars

\* ------------------------------------------- the store and its connection

\* close(): the connection is closed and set to None if there is one;
\* nothing happens otherwise.
CloseUnguarded(connection) ==
    [connection |-> "closed",
     raised |-> IF connection = "closed" THEN "AttributeError" ELSE "none"]

CloseOutcome(connection) ==
    [connection |-> "closed", raised |-> "none"]

\* self._connection.cursor() / self._connection.execute(...): with no
\* connection (None) the attribute access raises AttributeError, which the
\* except clauses of save and delete (sqlite3.Error, pickle.PickleError) do
\* not catch.
ConnectionRaises(connection) ==
    IF connection = "closed" THEN "AttributeError" ELSE "none"

\* The singleton is created once, on an open connection; __new__ never opens
\* a second one.
LifeInit ==
    /\ Idle
    /\ db \in [Chats -> InitRows]
    /\ Cardinality({c \in Chats : db[c].present}) <= 1
    /\ call = [op |-> "open", connection |-> "open", before |-> "open",
               raised |-> "none", result |-> TRUE]

\* save_conversation_history on the singleton.
LifeSave(chat_id, input_list, last_agent_name) ==
    /\ call.op # "del"
    /\ LET raised == ConnectionRaises(call.connection) IN
        /\ db' = IF raised = "none"
                 THEN SaveConversationHistory(db, chat_id, input_list, last_agent_name)
                 ELSE db
        /\ call' = [op |-> "save", connection |-> call.connection,
                    before |-> call.connection, raised |-> raised,
                    result |-> SaveReports(db, chat_id)]
    /\ UNCHANGED botVars

\* delete_conversation_history on the singleton.
LifeDelete(chat_id) ==
    /\ call.op # "del"
    /\ LET raised == ConnectionRaises(call.connection) IN
        /\ db' = IF raised = "none"
                 THEN DeleteConversationHistory(db, chat_id)
                 ELSE db
        /\ call' = [op |-> "delete", connection |-> call.connection,
                    before |-> call.connection, raised |-> raised,
                    result |-> DeleteReports(db, chat_id)]
    /\ UNCHANGED botVars

\* close() on the singleton (main.py calls it as a shutdown task).
LifeClose ==
    /\ call.op # "del"
    /\ call' = [op |-> "close",
                connection |-> CloseOutcome(call.connection).connection,
                before |-> call.connection,
                raised |-> CloseOutcome(call.connection).raised,
                result |-> TRUE]
    /\ UNCHANGED <<botVars, db>>

\* __del__ of the singleton: it calls close(); the object is gone afterwards.
LifeDel ==
    /\ call.op # "del"
    /\ call' = [op |-> "del",
                connection |-> CloseOutcome(call.connection).connection,
                before |-> call.connection,
                raised |-> CloseOutcome(call.connection).raised,
                result |-> TRUE]
    /\ UNCHANGED <<botVars, db>>

LifeNext ==
    \/ \E c \in Chats, l \in SavedLists, a \in SavedAgents : LifeSave(c, l, a)
    \/ \E c \in Chats : LifeDelete(c)
    \/ LifeClose
    \/ LifeDel

LifeSpec == LifeInit /\ [][LifeNext]_vars

\* ------------------------------------------------------ process shutdown

\* The _active_typing_tasks of the MessageHandlers instance that main.py
\* creates for its cleanup task (main.py 84). The dispatcher delivers the
\* updates to the instance BotService creates (bot.py 55-58), so the cleanup
\* instance never runs a turn and its registry stays as __init__ left it.
CleanupInstanceRegistry == <<>>

\* MessageHandlers.cleanup() of the instance whose registry is given: every
\* registered task that is not done is cancelled.
Cleanup(registry) ==
    [t \in MessageIds |->
        IF \E c \in DOMAIN registry : registry[c] = t /\ typing[t] # "done"
        THEN CancelTask(typing[t])
        ELSE typing[t]]

\* shutdown_handler on SIGINT / SIGTERM: the cleanup tasks run (the store is
\* closed, cleanup() is called on the cleanup instance, whose own dicts are
\* cleared), then the process exits.
Shutdown ==
    /\ call = NoCall
    /\ typing' = Cleanup(CleanupInstanceRegistry)
    /\ call' = [op |-> "shutdown"]
    /\ UNCHANGED <<arrived, is_processing_map, media_groups, media_group_locks,
                   active_typing_tasks, tasks, db>>

\* The bot runs until the signal arrives.
ShutdownNext ==
    \/ call = NoCall /\ Next
    \/ Shutdown

ShutdownSpec == Init /\ [][ShutdownNext]_vars

\* ------------------------------------------------------------ vocabulary

\* The Busy Flag of chat c is set.
Busy(c) == c \in DOMAIN is_processing_map /\ is_processing_map[c] = TRUE

\* Task t is inside the processing section of process_message_batch.
InFlight(t) == tasks[t].pc \in {"run", "send", "notify"}

\* Task t has handed tasks[t].batch to process_message_batch.
Handed(t) == tasks[t].pc \in {"empty", "dropped", "run", "send", "notify", "done"}

\* Task t is an outstanding debounce operation (process_media_group asleep).
Debouncing(t) == tasks[t].pc = "sleep"

Pending(g) == IF g \in DOMAIN media_groups THEN media_groups[g] ELSE <<>>

Elements(seq) == { seq[i] : i \in 1..Len(seq) }

\* Message i arrives in this step.
Arrives(i) == i \notin DOMAIN arrived /\ i \in DOMAIN arrived'

\* Task t hands its batch to process_message_batch in this step.
HandsOff(t) == ~Handed(t) /\ Handed(t)'

\* ------------------------------------------------------------------- C1

\* C1: for every conversation at most one batch is inside the processing
\* section of process_message_batch, and only while the Busy Flag is set; a
\* batch handed over while the flag is set is dropped: the step leaves the Busy
\* Flags, the typing tasks, the registry, the store and the turn in flight
\* unchanged, the collaborator is not called, and a dropped batch stays dropped.
C1_BusyBatchIsDropped ==
    /\ [](\A c \in Chats :
            Cardinality({t \in MessageIds : InFlight(t) /\ tasks[t].chat = c}) <= 1)
    /\ [](\A t \in MessageIds : InFlight(t) => Busy(tasks[t].chat))
    /\ [][\A t \in MessageIds :
            /\ (HandsOff(t) /\ tasks'[t].batch # <<>>
                    /\ Busy(tasks'[t].batch[1].chat))
               => /\ tasks'[t].pc = "dropped"
                  /\ tasks'[t].calls = 0
                  /\ typing'[t] = "none"
                  /\ \E u \in MessageIds \ {t} :
                        /\ InFlight(u)
                        /\ tasks[u].chat = tasks'[t].chat
                  /\ \A u \in MessageIds \ {t} : tasks'[u] = tasks[u]
                  /\ UNCHANGED <<is_processing_map, active_typing_tasks, typing, db>>
            /\ (tasks[t].pc = "dropped" => tasks'[t] = tasks[t])
            /\ (tasks'[t].pc = "dropped" /\ tasks[t].pc # "dropped"
                    => Busy(tasks'[t].chat))]_vars

\* A batch has been dropped while another turn of its chat is in flight.
C1_Witness ==
    \E t, u \in MessageIds :
        /\ tasks[t].pc = "dropped"
        /\ InFlight(u)
        /\ tasks[u].chat = tasks[t].chat

\* ------------------------------------------------------------------- C3

\* How often message msg occurs in the pending groups and in the batches
\* handed over by the debounce tasks.
Occurrences(seq, msg) == Cardinality({ i \in 1..Len(seq) : seq[i] = msg })

TimesKept(msg) ==
    LET g == msg.media_group_id
        in_batches == { t \in MessageIds : Handed(t) /\ tasks[t].media_group_id = g }
        count[S \in SUBSET in_batches] ==
            IF S = {} THEN 0
            ELSE LET t == CHOOSE x \in S : TRUE
                 IN  Occurrences(tasks[t].batch, msg) + count[S \ {t}]
    IN  Occurrences(Pending(g), msg) + count[in_batches]

\* C3: every message appended to a group is, at any time, either pending or
\* in exactly one batch handed to process_message_batch, once; the pending
\* group is the window of the debounce task started by its first message; and
\* when that task fires it hands over exactly the messages pending at that
\* time (all that were appended since the window opened), as one batch.
C3_OneBatchWithAllMessages ==
    /\ [](\A i \in DOMAIN arrived :
            (arrived[i].from_user /\ arrived[i].media_group_id # NoGroup)
                => TimesKept(arrived[i]) = 1)
    /\ [](\A g \in DOMAIN media_groups :
            /\ media_groups[g] # <<>>
            /\ Debouncing(media_groups[g][1].message_id)
            /\ \A k \in 2..Len(media_groups[g]) :
                   tasks[media_groups[g][k].message_id].pc = "joined")
    /\ [][\A t \in MessageIds :
            (Debouncing(t) /\ ~Debouncing(t)') =>
                /\ HandsOff(t)
                /\ Elements(tasks'[t].batch) = Elements(Pending(tasks[t].media_group_id))
                /\ Len(tasks'[t].batch) = Len(Pending(tasks[t].media_group_id))
                /\ Len(tasks'[t].batch) >= 1]_vars

\* A batch of two grouped messages has been handed over.
C3_Witness ==
    \E t \in MessageIds :
        /\ Handed(t)
        /\ tasks[t].media_group_id # NoGroup
        /\ Len(tasks[t].batch) = 2

\* ------------------------------------------------------------------- C4

\* C4: every batch handed to process_message_batch lists its messages in
\* strictly ascending message_id order.
C4_BatchAscending ==
    \A t \in MessageIds :
        Handed(t) =>
            \A i, j \in 1..Len(tasks[t].batch) :
                i < j => tasks[t].batch[i].message_id < tasks[t].batch[j].message_id

\* A batch of two has been handed over whose first message arrived last (the
\* debounce task is the one of the message that arrived first).
C4_Witness ==
    \E t \in MessageIds :
        /\ Handed(t)
        /\ Len(tasks[t].batch) = 2
        /\ tasks[t].batch[1].message_id # t
        /\ tasks[t].batch[2].message_id = t

\* ------------------------------------------------------------------- C5

Outstanding(g) ==
    Cardinality({ t \in MessageIds : Debouncing(t) /\ tasks[t].media_group_id = g })

\* C5: at most one debounce operation is outstanding per group identifier, a
\* pending group is non-empty exactly when one is outstanding for it, a
\* debounce is scheduled exactly when a message is appended to a group with no
\* pending entry, and the hand-off leaves no pending entry for the group.
C5_OneDebouncePerGroup ==
    /\ [](\A g \in Groups :
            /\ Outstanding(g) <= 1
            /\ (Pending(g) # <<>> <=> Outstanding(g) = 1))
    /\ [][\A i \in MessageIds :
            /\ (Arrives(i) /\ arrived'[i].from_user
                    /\ arrived'[i].media_group_id # NoGroup)
               => (Debouncing(i)' <=> Pending(arrived'[i].media_group_id) = <<>>)
            /\ (Debouncing(i) /\ ~Debouncing(i)')
               => tasks[i].media_group_id \notin DOMAIN media_groups']_vars

\* Two messages are pending in a group and one debounce is outstanding.
C5_Witness ==
    \E g \in Groups : Len(Pending(g)) = 2 /\ Outstanding(g) = 1

\* ------------------------------------------------------------------- C2

\* Task t ends its turn in this step.
EndsTurn(t) == InFlight(t) /\ tasks'[t].pc = "done"

\* Task t is admitted (its turn begins) in this step.
BeginsTurn(t) == ~Handed(t) /\ InFlight(t)'

\* C2: whenever the Busy Flag of a conversation is set it is cleared again
\* (the awaited calls of a turn return or raise); the flag is set only while a
\* turn of the conversation is in flight, it goes up only when a turn begins
\* and down only when that turn ends.
C2_BusyReturnsToIdle ==
    /\ \A c \in Chats : Busy(c) ~> ~Busy(c)
    /\ [](\A c \in Chats :
            Busy(c) => \E t \in MessageIds : InFlight(t) /\ tasks[t].chat = c)
    /\ [][\A c \in Chats :
            /\ (~Busy(c) /\ Busy(c)')
               => \E t \in MessageIds : BeginsTurn(t) /\ tasks'[t].chat = c
            /\ (Busy(c) /\ ~Busy(c)')
               => \E t \in MessageIds : EndsTurn(t) /\ tasks[t].chat = c]_vars

\* A turn has failed, its error notification has failed too, and the flag of
\* its chat is down again.
C2_Witness ==
    \E t \in MessageIds :
        /\ tasks[t].pc = "done"
        /\ tasks[t].outcome = "failed_unnotified"
        /\ tasks[t].chat \in DOMAIN is_processing_map
        /\ ~Busy(tasks[t].chat)

\* ------------------------------------------------------------------- C6

\* A batch of group g has been handed over and no debounce is outstanding.
HandedOffAndQuiet(g) ==
    /\ \E t \in MessageIds : Handed(t) /\ tasks[t].media_group_id = g
    /\ Outstanding(g) = 0

\* C6: a message appended to a group whose batch has been handed over (no
\* debounce outstanding) becomes the only message of a fresh pending group and
\* gets a debounce task of its own; a batch that has been handed over never
\* changes; and every debounce task does hand over a batch that holds the
\* message that started it.
C6_LateMessageStartsNewOccurrence ==
    /\ [][\A i \in MessageIds :
            (/\ Arrives(i)
             /\ arrived'[i].from_user
             /\ arrived'[i].media_group_id # NoGroup
             /\ HandedOffAndQuiet(arrived'[i].media_group_id))
            => /\ media_groups'[arrived'[i].media_group_id] = <<arrived'[i]>>
               /\ Debouncing(i)']_vars
    /\ [][\A t \in MessageIds :
            Handed(t) => (Handed(t)' /\ tasks'[t].batch = tasks[t].batch)]_vars
    /\ \A i \in MessageIds :
           Debouncing(i) ~> (Handed(i) /\ arrived[i] \in Elements(tasks[i].batch))

\* Two occurrences of the same group have each been handed over.
C6_Witness ==
    \E t, u \in MessageIds :
        /\ t # u
        /\ Handed(t) /\ Handed(u)
        /\ tasks[t].media_group_id # NoGroup
        /\ tasks[t].media_group_id = tasks[u].media_group_id
        /\ tasks[t].batch = <<arrived[t]>>
        /\ tasks[u].batch = <<arrived[u]>>

\* ------------------------------------------------------------------- C7

\* C7 as stated: every message without a group identifier is handed to
\* process_message_batch as a batch of that one message.
C7_EveryUngroupedMessageHanded ==
    \A i \in DOMAIN arrived :
        arrived[i].media_group_id = NoGroup
            => (Handed(i) /\ tasks[i].batch = <<arrived[i]>>)

\* C7, amended: a message without a group identifier that has a sender is
\* handed to process_message_batch, in the step in which it arrives, as a batch
\* of that one message (one without a sender is ignored); in both cases no
\* pending group and no group lock is touched, and the message never waits
\* for a debounce.
C7_UngroupedMessageHandedAtOnce ==
    /\ [][\A i \in MessageIds :
            (Arrives(i) /\ arrived'[i].media_group_id = NoGroup)
            => /\ arrived'[i].from_user
                    => (HandsOff(i) /\ tasks'[i].batch = <<arrived'[i]>>)
               /\ ~arrived'[i].from_user => tasks'[i].pc = "ignored"
               /\ UNCHANGED <<media_groups, media_group_locks>>]_vars
    /\ [](\A i \in DOMAIN arrived :
            arrived[i].media_group_id = NoGroup
            => /\ tasks[i].pc \notin {"sleep", "joined", "aborted"}
               /\ \A g \in DOMAIN media_groups :
                      arrived[i] \notin Elements(media_groups[g]))

\* A single message with a sender is being processed as its own batch.
C7_Witness ==
    \E i \in DOMAIN arrived :
        /\ arrived[i].media_group_id = NoGroup
        /\ arrived[i].from_user
        /\ InFlight(i)
        /\ tasks[i].batch = <<arrived[i]>>

\* ------------------------------------------------------------------- C8

Failed(t) ==
    /\ tasks[t].pc = "done"
    /\ tasks[t].outcome \in {"failed", "failed_unnotified", "failed_logged"}

\* C8 as stated: when a turn whose collaborator call raised ends, the error
\* text has been sent once, the Busy Flag is down and no typing task is
\* registered for the chat.
C8_NothingRegisteredAtTurnEnd ==
    [][\A t \in MessageIds :
          (tasks[t].pc = "notify" /\ tasks'[t].pc = "done")
          => /\ tasks[t].errs = 1
             /\ ~Busy(tasks[t].chat)'
             /\ tasks[t].chat \notin DOMAIN active_typing_tasks']_vars

\* C8, amended: when a turn whose collaborator call raised ends, the error
\* text has been sent once and the Busy Flag is down; an entry still
\* registered for the chat is the turn's own typing task, which has been
\* cancelled; once the cancelled task has run, the turn's typing task is not
\* registered any more.
C8_FailedTurnCleansUp ==
    /\ [][\A t \in MessageIds :
            (tasks[t].pc = "notify" /\ tasks'[t].pc = "done")
            => /\ tasks[t].errs = 1
               /\ ~Busy(tasks[t].chat)'
               /\ tasks[t].chat \in DOMAIN active_typing_tasks'
                    => /\ active_typing_tasks'[tasks[t].chat] = t
                       /\ typing'[t] = "cancelling"]_vars
    /\ \A t \in MessageIds :
           Failed(t) ~> (\A c \in DOMAIN active_typing_tasks :
                            active_typing_tasks[c] # t)

\* A failed turn has ended and its cancelled typing task is still registered.
C8_Witness ==
    \E t \in MessageIds :
        /\ Failed(t)
        /\ typing[t] = "cancelling"
        /\ tasks[t].chat \in DOMAIN active_typing_tasks
        /\ active_typing_tasks[tasks[t].chat] = t

\* ------------------------------------------------------------------- C9

\* C9: while a turn is on its failure path (the error text is being sent) the
\* stored history of its chat is the one respond read when the turn began, the
\* step that enters the failure path and the step that ends the failed turn
\* change no row, the collaborator is called at most once per turn and a failed turn
\* goes nowhere but to its end.
C9_FailureLeavesStoreUnchanged ==
    /\ [](\A t \in MessageIds :
            /\ tasks[t].calls <= 1
            /\ tasks[t].pc = "notify"
                 => GetConversationHistory(db, tasks[t].chat) = tasks[t].history)
    /\ [][\A t \in MessageIds :
            /\ (tasks[t].pc # "notify" /\ tasks'[t].pc = "notify") => db' = db
            /\ tasks[t].pc = "notify"
                 => /\ tasks'[t].pc \in {"notify", "done"}
                    /\ tasks'[t].calls = IF tasks'[t].pc = "done" THEN 0
                                          ELSE tasks[t].calls
                    /\ db'[tasks[t].chat] = db[tasks[t].chat]
                    /\ tasks'[t].pc = "done" => (db' = db /\ Failed(t)')]_vars

\* A turn has failed in a chat that has a stored row.
C9_Witness ==
    \E t \in MessageIds : Failed(t) /\ db[tasks[t].chat].present

\* ------------------------------------------------------------------ C10

\* C10: the step in which Runner.run returns an empty final output deletes the
\* row of the chat and of no other chat and ends the turn, no output having
\* been sent; a row changes only in the step that ends a turn of its chat; and
\* a turn that begins while its chat has no row starts at the hub agent with a
\* history of the new user turn alone.
C10_EmptyOutputDeletesState ==
    /\ [][\A t \in MessageIds :
            (tasks[t].pc = "run" /\ tasks'[t].pc = "done")
            => /\ tasks'[t].outcome = "deleted"
               /\ tasks[t].outs = 0
               /\ ~db'[tasks[t].chat].present
               /\ \A c \in Chats \ {tasks[t].chat} : db'[c] = db[c]]_vars
    /\ [][\A c \in Chats :
            db'[c] # db[c]
            => \E t \in MessageIds : EndsTurn(t) /\ tasks[t].chat = c]_vars
    /\ [][\A t \in MessageIds :
            (BeginsTurn(t) /\ ~db[tasks'[t].chat].present)
            => /\ tasks'[t].pc = "run"
               /\ tasks'[t].starting_agent = "hub_agent"
               /\ tasks'[t].input_list = <<UserItem>>]_vars

\* A turn ended with an empty output, and the next turn of the chat runs from
\* the hub agent with the new user turn alone.
C10_Witness ==
    \E t, u \in MessageIds :
        /\ tasks[t].pc = "done" /\ tasks[t].outcome = "deleted"
        /\ tasks[u].pc = "run" /\ tasks[u].chat = tasks[t].chat
        /\ tasks[u].starting_agent = "hub_agent"
        /\ tasks[u].input_list = <<UserItem>>
        /\ ~db[tasks[u].chat].present

\* ------------------------------------------------------------------ C11

\* C11: a non-empty final output is sent before anything is saved: the step in
\* which Runner.run returns it changes no row, and while the send is awaited
\* the stored history is still the one the turn read; the returned history and
\* stage are saved in the step in which the send returns, and only there; a
\* send that raises saves nothing, and the stored history stays the one the
\* turn read until the turn ends.
C11_SaveOnlyAfterSend ==
    /\ [][\A t \in MessageIds :
            /\ (tasks[t].pc = "run" /\ tasks'[t].pc = "send")
               => (db' = db /\ tasks'[t].outs = 1)
            /\ (tasks[t].pc = "send" /\ tasks'[t].pc = "done")
               => /\ tasks'[t].outcome = "saved"
                  /\ tasks[t].outs = 1
                  /\ GetConversationHistory(db', tasks[t].chat)
                        = Row(tasks[t].input_list, tasks[t].last_agent)
            /\ (tasks[t].pc = "send" /\ tasks'[t].pc \notin {"send", "done"})
               => (tasks'[t].pc = "notify" /\ db' = db)
            /\ (tasks[t].pc # "done" /\ tasks'[t].pc = "done"
                    /\ tasks'[t].outcome = "saved")
               => tasks[t].pc = "send"]_vars
    /\ [](\A t \in MessageIds :
            tasks[t].pc \in {"send", "notify"}
                => GetConversationHistory(db, tasks[t].chat) = tasks[t].history)

\* The send of an output has raised in a chat that has a stored row.
C11_Witness ==
    \E t \in MessageIds :
        /\ tasks[t].pc = "notify"
        /\ tasks[t].outs = 1
        /\ db[tasks[t].chat].present

\* ------------------------------------------------------------------ C12

\* C12: for every stored history and every maximum m the trimming step yields
\* a history (it does not raise), of length strictly less than m, and for
\* m = 0 the empty history.
C12_TrimYieldsShorterThanMax ==
    call.op = "trim" =>
        /\ call.pc # "raised"
        /\ call.pc = "trimmed" =>
              IF call.m = 0 THEN call.input_list = <<>>
              ELSE Len(call.input_list) < call.m

\* ------------------------------------------------------------------ C13

\* How many items of list carry the call_id id.
CountCallId(list, id) == Cardinality({ i \in 1..Len(list) : list[i].call_id = id })

\* C13: at every point of the trimming step, and in the list handed on, the
\* items carrying one call_id are either all those of the stored history or
\* none of them.
C13_GroupsNeverSplit ==
    call.op = "trim" =>
        \A id \in CallIds :
            \/ CountCallId(call.input_list, id) = 0
            \/ CountCallId(call.input_list, id) = CountCallId(call.h, id)

\* The loop has ended having removed a group whose second item was not next to
\* the first, and the item between them is kept.
C13_Witness ==
    /\ call.op = "trim" /\ call.pc = "trimmed"
    /\ Len(call.h) >= 3
    /\ call.h[1].call_id # NoCallId
    /\ call.h[3].call_id = call.h[1].call_id
    /\ call.h[2].call_id # call.h[1].call_id
    /\ call.input_list # <<>>
    /\ call.input_list[1] = call.h[2]
    /\ CountCallId(call.input_list, call.h[1].call_id) = 0

\* ------------------------------------------------------------------ C14

RECURSIVE IsSubsequence(_, _)
\* The items of kept occur in whole, in the same order (not necessarily next
\* to each other).
IsSubsequence(kept, whole) ==
    IF kept = <<>> THEN TRUE
    ELSE IF whole = <<>> THEN FALSE
    ELSE IF Head(kept) = Head(whole)
         THEN IsSubsequence(Tail(kept), Tail(whole))
         ELSE IsSubsequence(kept, Tail(whole))

\* C14: at every point of the trimming step the list is a subsequence of the
\* stored history (the surviving items, unaltered, in their original order),
\* every iteration leaves a subsequence of what it found, and a stored history
\* shorter than the maximum leaves the loop unchanged.
C14_SurvivorsKeepOrder ==
    /\ [](call.op = "trim" =>
            /\ call.pc \in {"loop", "trimmed", "raised"}
                  => IsSubsequence(call.input_list, call.h)
            /\ (call.pc = "trimmed" /\ Len(call.h) < call.m)
                  => call.input_list = call.h)
    /\ [][(call.op = "trim" /\ call.pc = "loop")
            => IsSubsequence(call'.input_list, call.input_list)]_vars

\* The loop has ended keeping two items that were not next to each other in
\* the stored history, in their order.
C14_Witness ==
    /\ call.op = "trim" /\ call.pc = "trimmed"
    /\ Len(call.h) = 4
    /\ call.input_list = <<call.h[2], call.h[4]>>
    /\ call.h[2] # call.h[4]

\* ------------------------------------------------------------------ C15

\* C15: the trimming loop, once entered, is left (by the failing loop test or
\* by the IndexError of max_messages = 0), for every stored history and every
\* maximum, and every iteration leaves the list strictly shorter.
C15_TrimLoopTerminates ==
    /\ (call.op = "trim" /\ call.pc = "loop")
            ~> (call.op = "trim" /\ call.pc \in {"trimmed", "raised"})
    /\ [][(call.op = "trim" /\ call.pc = "loop" /\ call'.pc = "loop")
            => \/ Len(call'.input_list) < Len(call.input_list)
               \/ UNCHANGED vars]_vars
    /\ [][TrimIterates => Len(call'.input_list) < Len(call.input_list)]_vars

\* The loop has ended after more than one iteration with something left.
C15_Witness ==
    /\ call.op = "trim" /\ call.pc = "trimmed"
    /\ call.input_list # <<>>
    /\ call.h[Len(call.h)].call_id = NoCallId
    /\ \A i \in 1..(Len(call.h) - 1) : call.h[i].call_id = NoCallId
    /\ Len(call.input_list) + 2 <= Len(call.h)

\* ------------------------------------------------------------------ C16

\* C16: the history stored for any conversation has at most max_messages
\* items.
C16_PersistedHistoryWithinMax ==
    \A c \in Chats :
        db[c].present
            => Len(GetConversationHistory(db, c).input_list) <= MaxMessages

\* ------------------------------------------------------------------ C17

C18_SaveThenGetRoundTrip ==
    call.op \in StoreOps =>
        /\ \A c \in Chats :
              call.written[c].known
                  => GetConversationHistory(db, c) = call.written[c].value
        /\ call.op = "save" =>
              /\ call.result = TRUE
              /\ GetConversationHistory(db, call.chat).present
              /\ GetConversationHistory(db, call.chat).input_list = call.input_list
              /\ GetConversationHistory(db, call.chat).last_agent_name
                    = call.last_agent_name
        /\ (call.op = "get" /\ call.written[call.chat].known)
              => call.result = call.written[call.chat].value

\* A get has returned a history whose save replaced a different row, while
\* the other conversation holds a row of its own.
C18_Witness ==
    /\ call.op = "get"
    /\ call.written[call.chat].known
    /\ call.written[call.chat].replaced
    /\ call.result.present
    /\ call.result.input_list = <<AssistantItem, UserItem>>
    /\ \E d \in Chats \ {call.chat} : db[d].present

\* ------------------------------------------------------------------ C19

\* C19: every delete reports success and leaves no row for its id (get yields
\* the absent marker), also when the id had no row or had just been deleted,
\* and such a delete changes nothing in the store.
C19_DeleteIsIdempotent ==
    /\ [](call.op = "delete" =>
            /\ call.result = TRUE
            /\ GetConversationHistory(db, call.chat) = NoRow)
    /\ []((call.op = "get" /\ call.written[call.chat].known
                /\ ~call.written[call.chat].value.present)
            => call.result = NoRow)
    /\ [][(call'.op = "delete" /\ call' # call
                /\ (call'.again \/ ~call'.existed))
            => db' = db]_vars

\* A conversation has been deleted a second time in a row.
C19_Witness ==
    /\ call.op = "delete"
    /\ call.again
    /\ ~call.existed
    /\ call.result = TRUE

\* ------------------------------------------------------------------ C20

\* C20: a save or a delete for one id leaves what get returns for every other
\* id, and the row of every other id, unchanged; a get changes no row.
C20_OtherRowsUntouched ==
    [][/\ call'.op \in {"save", "delete"}
          => \A d \in Chats \ {call'.chat} :
                /\ db'[d] = db[d]
                /\ GetConversationHistory(db', d) = GetConversationHistory(db, d)
       /\ call'.op = "get" => db' = db]_vars

\* The last operation wrote one conversation while the other holds a
\* different row written earlier.
C20_Witness ==
    /\ call.op \in {"save", "delete"}
    /\ \E d \in Chats \ {call.chat} :
          /\ call.written[d].known
          /\ db[d].present
          /\ db[d] # db[call.chat]

\* ---- C21
\* C21: get_conversation_history never raises on a stored row that cannot be
\* decoded into a valid conversation state: every such row is reported as
\* absent state (None), and the turn that read it goes on as a fresh
\* conversation.
C21_UndecodableRowIsAbsent ==
    call.op = "get" =>
        /\ call.outcome.raised = "none"
        /\ Undecodable(db[call.chat]) =>
              /\ call.outcome.result = NoRow
              /\ call.turn = "fresh"

\* ---- C22
\* C22: save_conversation_history and delete_conversation_history never
\* raise and report their outcome as a boolean, in every state of the store,
\* also after close() on the singleton.
C22_SaveAndDeleteNeverRaise ==
    call.op \in {"save", "delete"} =>
        /\ call.raised = "none"
        /\ call.result \in BOOLEAN

\* ---- C23
\* C23: close() is idempotent: after every call of close(), the first one or
\* a later one or the one made by __del__, the store is closed, and no call
\* raises.
C23_CloseIsIdempotent ==
    call.op \in {"close", "del"} =>
        /\ call.connection = "closed"
        /\ call.raised = "none"

\* close() has been called on a store that was closed already, and the
\* destructor's call has followed a close() too.
C23_Witness ==
    /\ call.op = "del"
    /\ call.before = "closed"

C25_NoTypingWhileIdle ==
    \A t \in MessageIds :
        typing[t] \in {"created", "running"} => Busy(tasks[t].chat)

\* ---- C26
\* C26: after the cleanup tasks of the shutdown handler have run, no typing
\* task of a turn of the serving handlers is still running uncancelled.
C26_ShutdownCancelsTypingTasks ==
    call.op = "shutdown" =>
        \A t \in MessageIds : typing[t] \notin {"created", "running"}

\* ---- C27
\* C27: a communication failure of the typing signal ends the typing task for
\* good and changes nothing of the turn, the flags or the store; the turn then
\* goes on as it would have: its awaited call can return or raise, and a
\* result that has been sent is saved as the run returned it.
C27_TypingFailureLeavesTurnAlone ==
    /\ [](\A t \in MessageIds :
            (InFlight(t) /\ typing[t] = "done") => ENABLED TurnStep(t))
    /\ [][\A t \in MessageIds :
            /\ (typing[t] = "running" /\ typing'[t] = "done")
               => /\ tasks' = tasks
                  /\ db' = db
                  /\ is_processing_map' = is_processing_map
            /\ typing[t] = "done" => typing'[t] = "done"
            /\ (typing[t] = "done" /\ tasks[t].pc = "send"
                   /\ tasks'[t].outcome = "saved")
               => db'[tasks[t].chat] =
                    StoredRow(tasks[t].input_list, tasks[t].last_agent)]_vars

\* The typing task of a turn has failed and the turn is sending its result.
C27_Witness ==
    \E t \in MessageIds :
        /\ tasks[t].pc = "send"
        /\ typing[t] = "done"
        /\ Busy(tasks[t].chat)

\* ---- C28
\* C28: the debounce task of a group is created while the group's lock is not
\* held.
C28_ScheduledOutsideLock ==
    \A t \in MessageIds :
        tasks[t].pc = "sleep" => tasks[t].lock_at_schedule = "free"

\* ---- C29
\* C29: an exception that leaves process_message_batch is caught by the
\* handler or by the debounce task (the task does not end with it), and the
\* step changes no pending group, no stored row and no Busy Flag of another
\* conversation; a message without a sender changes nothing but the record
\* of its arrival.
C29_HandlerExceptionIsContained ==
    [][/\ \A t \in MessageIds :
            /\ tasks'[t].pc # "crashed"
            /\ (InFlight(t) /\ tasks'[t].outcome = "failed_logged")
               => /\ tasks'[t].pc = "done"
                  /\ media_groups' = media_groups
                  /\ db' = db
                  /\ \A u \in MessageIds \ {t} : tasks'[u] = tasks[u]
                  /\ \A c \in Chats \ {tasks[t].chat} :
                        /\ Busy(c)' = Busy(c)
                        /\ (c \in DOMAIN active_typing_tasks')
                              = (c \in DOMAIN active_typing_tasks)
       /\ \A i \in MessageIds :
            (Arrives(i) /\ ~arrived'[i].from_user)
            => /\ tasks'[i].pc = "ignored"
               /\ \A u \in MessageIds \ {i} : tasks'[u] = tasks[u]
               /\ UNCHANGED <<is_processing_map, media_groups, media_group_locks,
                              active_typing_tasks, typing, db>>]_vars

\* The exception of a group's batch was caught by its debounce task while a
\* turn of the other conversation is in flight.
C29_Witness ==
    \E t, u \in MessageIds :
        /\ tasks[t].pc = "done"
        /\ tasks[t].outcome = "failed_logged"
        /\ tasks[t].media_group_id # NoGroup
        /\ InFlight(u)
        /\ tasks[u].chat # tasks[t].chat

\* ---- C30
\* C30: a turn that finds no stored state starts at the hub with the new user
\* turn as its whole history; a turn that finds stored state starts at the
\* stored stage with the stored history, trimmed, followed by the new user
\* turn as last item.
C30_StageContinuity ==
    [][\A t \in MessageIds :
          (tasks[t].pc # "run" /\ tasks'[t].pc = "run")
          => LET stored == db[tasks'[t].chat] IN
             /\ ~stored.present
                => /\ tasks'[t].starting_agent = "hub_agent"
                   /\ tasks'[t].input_list = <<UserItem>>
             /\ stored.present
                => /\ tasks'[t].starting_agent = stored.last_agent_name
                   /\ tasks'[t].input_list =
                        TrimHistory(PickleLoads(stored.input_list), MaxMessages)
                            \o <<UserItem>>
                   /\ tasks'[t].input_list[Len(tasks'[t].input_list)] = UserItem]_vars

\* A turn starts at the stage the previous turn of the conversation saved (no
\* row of the initial store names that stage), with a stored history.
C30_Witness ==
    \E t \in MessageIds :
        /\ tasks[t].pc = "run"
        /\ tasks[t].starting_agent = "price_negotiator_agent"
        /\ tasks[t].history.present
        /\ Len(tasks[t].input_list) > 1

\* ---- C31
\* The typing task of t has been created and has not ended.
NotTerminated(t) == typing[t] \in {"created", "running", "cancelling"}

\* C31: a typing task that has not ended is the task registered for its chat
\* (so each chat has at most one), and a typing task that ends never removes
\* a registry entry that names another task.
C31_RegistryNamesTheLiveTask ==
    [][/\ \A t \in MessageIds :
            NotTerminated(t)'
            => /\ tasks'[t].chat \in DOMAIN active_typing_tasks'
               /\ active_typing_tasks'[tasks'[t].chat] = t
       /\ \A t, u \in MessageIds :
            (/\ t # u
             /\ NotTerminated(t) /\ typing'[t] = "done"
             /\ tasks[t].chat \in DOMAIN active_typing_tasks
             /\ active_typing_tasks[tasks[t].chat] = u)
            => /\ tasks[t].chat \in DOMAIN active_typing_tasks'
               /\ active_typing_tasks'[tasks[t].chat] = u
       /\ \A t, u \in MessageIds :
            (NotTerminated(t)' /\ NotTerminated(u)'
             /\ tasks'[t].chat = tasks'[u].chat) => t = u]_vars

\* ---- C32
\* Message i has been appended to a pending group and is still in it.
InPending(i) ==
    /\ i \in DOMAIN arrived
    /\ arrived[i].from_user
    /\ arrived[i].media_group_id # NoGroup
    /\ arrived[i] \in Elements(Pending(arrived[i].media_group_id))

\* The batches handed to process_message_batch that hold message i.
BatchesWith(i) ==
    { t \in MessageIds :
        /\ i \in DOMAIN arrived
        /\ Handed(t)
        /\ arrived[i] \in Elements(tasks[t].batch) }

\* C32: a grouped message is, at every moment, either once in its pending
\* group and in no batch, or in exactly one handed batch and once in it; a
\* message in a handed batch stays in it; and every message in a pending
\* group does get into a handed batch (the sleep of the debounce task ends).
C32_GroupedMessageInOneBatch ==
    /\ [](\A i \in DOMAIN arrived :
            (arrived[i].from_user /\ arrived[i].media_group_id # NoGroup)
            => /\ TimesKept(arrived[i]) = 1
               /\ InPending(i) => BatchesWith(i) = {}
               /\ ~InPending(i) => Cardinality(BatchesWith(i)) = 1)
    /\ [][\A i \in DOMAIN arrived : BatchesWith(i) \subseteq BatchesWith(i)']_vars
    /\ \A i \in MessageIds : InPending(i) ~> (BatchesWith(i) # {})

\* A message that joined a pending group is in the batch handed over by the
\* debounce task another message started.
C32_Witness ==
    \E i \in DOMAIN arrived :
        /\ tasks[i].pc = "joined"
        /\ \E t \in BatchesWith(i) : t # i /\ Len(tasks[t].batch) = 2

\* ---- C33
\* Turn t has read the stored state of its chat and has not written back.
ReadNotWritten(t) == tasks[t].pc \in {"run", "send"}

\* C33: while a turn is between its read of the stored state and its
\* write-back, the stored state of its chat is what the turn read and no other
\* turn of that chat is in flight; the row of a chat changes only in the step
\* in which the turn in flight for that chat writes back (save or delete).
C33_NoLostUpdate ==
    /\ [](\A t \in MessageIds :
            ReadNotWritten(t)
            => /\ GetConversationHistory(db, tasks[t].chat) = tasks[t].history
               /\ \A u \in MessageIds \ {t} :
                     InFlight(u) => tasks[u].chat # tasks[t].chat)
    /\ [][\A c \in Chats :
            db'[c] # db[c]
            => \E t \in MessageIds :
                  /\ ReadNotWritten(t)
                  /\ tasks[t].chat = c
                  /\ EndsTurn(t)
                  /\ tasks'[t].outcome \in {"saved", "deleted"}]_vars

\* A turn has read a stored row and not yet written back, and a batch that
\* arrived for its chat in the meantime has been dropped.
C33_Witness ==
    \E t, u \in MessageIds :
        /\ ReadNotWritten(t)
        /\ tasks[t].history.present
        /\ tasks[u].pc = "dropped"
        /\ tasks[u].chat = tasks[t].chat

\* ---- C34
\* C34: a batch is dropped only when a turn of its own chat is in flight, and
\* a batch of a chat whose flag is down is admitted whatever the other chats
\* do; the end of a turn (flag cleared, typing task cancelled) and the end of
\* a typing task change no Busy Flag and no registry entry of another chat.
C34_AdmissionIsPerConversation ==
    [][/\ \A t \in MessageIds :
            (HandsOff(t) /\ tasks'[t].batch # <<>>)
            => LET c == tasks'[t].chat IN
               /\ tasks'[t].pc = "dropped"
                  => \E u \in MessageIds \ {t} : InFlight(u) /\ tasks[u].chat = c
               /\ ~Busy(c) => InFlight(t)'
       /\ \A t \in MessageIds :
            (EndsTurn(t) \/ (NotTerminated(t) /\ typing'[t] = "done"))
            => \A c \in Chats \ {tasks[t].chat} :
                  /\ Busy(c)' = Busy(c)
                  /\ (c \in DOMAIN active_typing_tasks')
                        = (c \in DOMAIN active_typing_tasks)
                  /\ c \in DOMAIN active_typing_tasks
                        => active_typing_tasks'[c] = active_typing_tasks[c]
                  /\ \A u \in MessageIds :
                        tasks[u].chat = c => typing'[u] = typing[u]]_vars

\* Turns of both chats are in flight at once: the second was admitted while
\* the first was running.
C34_Witness ==
    \E t, u \in MessageIds :
        /\ InFlight(t) /\ InFlight(u)
        /\ tasks[t].chat # tasks[u].chat
        /\ Busy(tasks[t].chat) /\ Busy(tasks[u].chat)

====
